---- MODULE Spec2Model ----
(***************************************************************************)
(* The RAG service of lucasfend/rag-service-py as a state machine: one     *)
(* /ask request is taken from the handler in main.py through               *)
(* RAGSystem.process_question, DatabaseService.search_documents, the       *)
(* per-token fallback, the context assembler and the completion call.      *)
(*                                                                         *)
(* Text is kept as TLA+ strings, character by character (Len, SubSeq and   *)
(* \o work on them).  Accented letters of the source's literals are        *)
(* written without the accent, one character for one character, so every   *)
(* length is the length the Python code sees.  Relevance scores are        *)
(* written in tenths: 10 is 1.0, 5 is 0.5, 3 is 0.3, 1 is 0.1, 0 is 0.0.   *)
(***************************************************************************)
EXTENDS Integers, Sequences, FiniteSets, TLC

(***************************************************************************)
(* Strings                                                                 *)
(***************************************************************************)

\* s[i] of Python, 1-based
CharAt(s, i) == SubSeq(s, i, i)

UpperChars == "ABCDEFGHIJKLMNOPQRSTUVWXYZ"
LowerChars == "abcdefghijklmnopqrstuvwxyz"

LowerChar(c) ==
    IF \E i \in 1..Len(UpperChars) : CharAt(UpperChars, i) = c
    THEN CharAt(LowerChars, CHOOSE i \in 1..Len(UpperChars) : CharAt(UpperChars, i) = c)
    ELSE c

\* str.lower(), by halves
RECURSIVE Lower(_)
Lower(s) ==
    IF Len(s) = 0 THEN ""
    ELSE IF Len(s) = 1 THEN LowerChar(s)
    ELSE LET h == Len(s) \div 2
         IN Lower(SubSeq(s, 1, h)) \o Lower(SubSeq(s, h + 1, Len(s)))

IsSpace(c) == c \in {" ", "\n", "\t"}

\* str.strip() = "" : the string holds nothing but whitespace
IsBlank(s) == \A i \in 1..Len(s) : IsSpace(CharAt(s, i))

\* the positions where a maximal run of non-whitespace characters starts
WordStarts(s) ==
    {i \in 1..Len(s) : ~IsSpace(CharAt(s, i)) /\ (i = 1 \/ IsSpace(CharAt(s, i - 1)))}

\* the run of non-whitespace characters that starts at position i
WordAt(s, i) ==
    LET j == CHOOSE j \in i..Len(s) :
                 /\ \A k \in i..j : ~IsSpace(CharAt(s, k))
                 /\ (j = Len(s) \/ IsSpace(CharAt(s, j + 1)))
    IN SubSeq(s, i, j)

\* str.split(): the maximal runs of non-whitespace characters, in order
Split(s) ==
    LET starts == WordStarts(s)
    IN [n \in 1..Cardinality(starts) |->
           WordAt(s, CHOOSE i \in starts : Cardinality({j \in starts : j <= i}) = n)]

\* pat occurs in s as a substring
Contains(s, pat) ==
    \E i \in 1..(Len(s) - Len(pat) + 1) : SubSeq(s, i, i + Len(pat) - 1) = pat

\* {"$regex": pat, "$options": "i"} on a field value, for a pattern of
\* letters and spaces (a literal): case-insensitive substring match
RegexMatchI(value, pat) == Contains(Lower(value), Lower(pat))

\* str * n
RECURSIVE Repeat(_, _)
Repeat(s, n) == IF n = 0 THEN "" ELSE s \o Repeat(s, n - 1)

RECURSIVE JoinWith(_, _)
\* sep.join(parts)
JoinWith(sep, parts) ==
    IF parts = << >> THEN ""
    ELSE IF Len(parts) = 1 THEN parts[1]
    ELSE parts[1] \o sep \o JoinWith(sep, Tail(parts))

(***************************************************************************)
(* Documents and the document store                                        *)
(***************************************************************************)

\* dict.get(key, default)
Get(d, key, default) == IF key \in DOMAIN d THEN d[key] ELSE default

\* the four text fields the queries look at
TextFields == <<"subject", "tutor", "className", "document">>

\* the projection of every find(): the four fields, plus _id (always kept)
ProjectedFields == {"_id", "subject", "className", "tutor", "document"}

Project(d) == [k \in (DOMAIN d) \cap ProjectedFields |-> d[k]]

LongBody == Repeat("matrix vector ", 20)

\* The documents a store may hold.  Document 3 has no tutor field.
DocPool ==
    << [_id |-> "id1", subject |-> "Calculus", tutor |-> "Ana", className |-> "T1",
        document |-> "calculus examples and limits", uploadedBy |-> "ana"],
       [_id |-> "id2", subject |-> "Physics", tutor |-> "Bob", className |-> "T2",
        document |-> "Mechanics with calculus review", uploadedBy |-> "bob"],
       [_id |-> "id3", subject |-> "Algebra", className |-> "T1",
        document |-> "calculus of " \o LongBody, uploadedBy |-> "ana"],
       [_id |-> "id4", subject |-> "Calculus", tutor |-> "Bob", className |-> "T2",
        document |-> "limits", uploadedBy |-> "bob"] >>

\* cursor.limit(n): the first n results; limit(0) is no limit
Limit(docs, n) == IF n = 0 \/ Len(docs) <= n THEN docs ELSE SubSeq(docs, 1, n)

\* list slice docs[:n] for n >= 0
Take(docs, n) == IF Len(docs) <= n THEN docs ELSE SubSeq(docs, 1, n)

\* {"$text": {"$search": query}}: the query is split into terms and a
\* document matches when one of its indexed words equals one of the terms,
\* case-insensitively (the terms are OR-ed)
TextMatch(d, query) ==
    \E i \in 1..Len(TextFields) :
        /\ TextFields[i] \in DOMAIN d
        /\ LET terms == Split(Lower(query))
               words == Split(Lower(d[TextFields[i]]))
           IN \E a \in 1..Len(terms), b \in 1..Len(words) : terms[a] = words[b]

\* {"$or": [{field: {"$regex": pat, "$options": "i"}} for the four fields]}
OrRegexMatch(d, pat) ==
    \E i \in 1..Len(TextFields) :
        TextFields[i] \in DOMAIN d /\ RegexMatchI(d[TextFields[i]], pat)

\* the filter of the primary query, search_documents lines 60-64: the
\* filters argument is not read
PrimaryMatch(d, query, flt) ==
    IF query # "" /\ ~IsBlank(query) THEN TextMatch(d, query) ELSE TRUE

FindPrimary(coll, query, flt, limit) ==
    LET hit == SelectSeq(coll, LAMBDA d : PrimaryMatch(d, query, flt))
    IN Limit([i \in 1..Len(hit) |-> Project(hit[i])], limit * 3)

FindSubstring(coll, query, limit) ==
    LET hit == SelectSeq(coll, LAMBDA d : OrRegexMatch(d, Lower(query)))
    IN Limit([i \in 1..Len(hit) |-> Project(hit[i])], limit * 3)

FallbackLimit == 3

FindToken(coll, word) ==
    LET hit == SelectSeq(coll, LAMBDA d : OrRegexMatch(d, word))
    IN Limit([i \in 1..Len(hit) |-> Project(hit[i])], FallbackLimit)

(***************************************************************************)
(* Ranking (DatabaseService._rank_documents_by_similarity)                 *)
(***************************************************************************)

\* doc['relevance_score'] = score
WithScore(d, score) ==
    [k \in (DOMAIN d) \cup {"relevance_score"} |->
        IF k = "relevance_score" THEN score ELSE d[k]]

\* the score search_documents gives the only candidate: 1.0
SingleScore == 10

\* the score of every document when the ranking fails: 0.5
NeutralScore == 5

\* min_score = 0.0
min_score == 0

\* the values cosine_similarity may return for a document, in tenths
SimilarityValues == {0, 2, 7}

\* a sort that puts d before the elements of equal score
InsertDescUnstable(sorted, d) ==
    LET ahead == Cardinality({i \in 1..Len(sorted) :
                     sorted[i].relevance_score > d.relevance_score})
    IN SubSeq(sorted, 1, ahead) \o << d >> \o SubSeq(sorted, ahead + 1, Len(sorted))

\* sorted(documents, key=score, reverse=True) puts d after every element
\* whose score is at least d's: equal scores keep their order
InsertDesc(sorted, d) ==
    LET ahead == Cardinality({i \in 1..Len(sorted) :
                     sorted[i].relevance_score >= d.relevance_score})
    IN SubSeq(sorted, 1, ahead) \o << d >> \o SubSeq(sorted, ahead + 1, Len(sorted))

RECURSIVE SortedDescFrom(_, _, _)
SortedDescFrom(docs, i, acc) ==
    IF i > Len(docs) THEN acc ELSE SortedDescFrom(docs, i + 1, InsertDesc(acc, docs[i]))

\* sorted(documents, key=lambda x: x['relevance_score'], reverse=True)
SortedDesc(docs) == SortedDescFrom(docs, 1, << >>)

\* lines 150-152: documents with the similarities attached
Scored(documents, sims) ==
    [i \in 1..Len(documents) |-> WithScore(documents[i], sims[i])]

\* lines 158-167, the ranking does not fail
RankedOk(documents, sims) ==
    LET ranked_docs   == SortedDesc(Scored(documents, sims))
        filtered_docs == SelectSeq(ranked_docs, LAMBDA d : d.relevance_score >= min_score)
    IN IF filtered_docs # << >> THEN filtered_docs ELSE Take(ranked_docs, 1)

\* a failed ranking that hands the candidates back without a score
RankedFailedUnscored(documents) == documents

\* lines 169-174, the ranking fails: every document gets 0.5
RankedFailed(documents) ==
    [i \in 1..Len(documents) |-> WithScore(documents[i], NeutralScore)]

(***************************************************************************)
(* Context, prompt, sources (RAGSystem)                                    *)
(***************************************************************************)

\* the snippet of one document, lines 132-138
DocContext(d) ==
    "\n**Disciplina:** " \o Get(d, "subject", "N/A")
    \o "\n**Professor:** " \o Get(d, "tutor", "N/A")
    \o "\n**Turma:** " \o Get(d, "className", "N/A")
    \o "\n**Conteudo:**\n" \o Get(d, "document", "")
    \o "\n"

\* "Minimo para ser util", line 144
MinUsefulSpace == 200

TruncationSuffix == "..."

\* the loop with "continue" for "break": the documents after the one that
\* does not fit are still looked at
RECURSIVE ContextPartsContinue(_, _, _, _, _)
ContextPartsContinue(documents, i, context_parts, current_length, maxlen) ==
    IF i > Len(documents) THEN context_parts
    ELSE LET doc_context == DocContext(documents[i])
         IN IF current_length + Len(doc_context) > maxlen
            THEN LET remaining_space == maxlen - current_length
                 IN IF remaining_space > MinUsefulSpace
                    THEN ContextPartsContinue(documents, i + 1,
                             context_parts
                             \o << SubSeq(doc_context, 1, remaining_space)
                                       \o TruncationSuffix >>,
                             current_length, maxlen)
                    ELSE ContextPartsContinue(documents, i + 1, context_parts,
                                              current_length, maxlen)
            ELSE ContextPartsContinue(documents, i + 1,
                                      context_parts \o << doc_context >>,
                                      current_length + Len(doc_context), maxlen)

\* the loop of _prepare_context, lines 130-150
RECURSIVE ContextParts(_, _, _, _, _)
ContextParts(documents, i, context_parts, current_length, maxlen) ==
    IF i > Len(documents) THEN context_parts
    ELSE LET doc_context == DocContext(documents[i])
         IN IF current_length + Len(doc_context) > maxlen
            THEN LET remaining_space == maxlen - current_length
                 IN IF remaining_space > MinUsefulSpace
                    THEN context_parts
                         \o << SubSeq(doc_context, 1, remaining_space) \o TruncationSuffix >>
                    ELSE context_parts
            ELSE ContextParts(documents, i + 1, context_parts \o << doc_context >>,
                              current_length + Len(doc_context), maxlen)

\* RAGSystem._prepare_context
PrepareContext(documents, maxlen) ==
    JoinWith("\n---\n", ContextParts(documents, 1, << >>, 0, maxlen))

PromptHead ==
    "Voce e um assistente academico especializado.\n"
    \o "Responda a pergunta abaixo com base no contexto extraido da base de dados.\n\n"
    \o "**Instrucoes importantes:**\n"
    \o "- Formate a resposta em **topicos** sempre que possivel\n"
    \o "- Use **negrito** nos titulos principais\n"
    \o "- Use <br/> para quebrar linhas entre secoes\n"
    \o "- Seja preciso e objetivo\n"
    \o "- Cite as disciplinas e professores quando relevante\n"
    \o "- Se nao houver informacao suficiente, seja honesto sobre isso\n\n"
    \o "**Contexto util:**\n"

\* RAGSystem._generate_prompt
GeneratePrompt(q, ctx) ==
    PromptHead \o ctx \o "\n\n**Pergunta:**\n" \o q \o "\n\n**Resposta:**"

\* RAGSystem._prepare_sources
PrepareSources(documents) ==
    [i \in 1..Len(documents) |->
        [id |-> Get(documents[i], "_id", ""),
         subject |-> Get(documents[i], "subject", "N/A"),
         tutor |-> Get(documents[i], "tutor", "N/A"),
         className |-> Get(documents[i], "className", "N/A"),
         uploadedBy |-> Get(documents[i], "uploadedBy", "N/A"),
         relevance_score |-> Get(documents[i], "relevance_score", 0)]]

NoInfoAnswer ==
    "Desculpe, nao encontrei informacoes relevantes para responder sua pergunta. "
    \o "Tente reformular a pergunta ou usar termos mais especificos."

(***************************************************************************)
(* Prompt length (OpenAIService)                                           *)
(***************************************************************************)

\* OpenAIService.count_tokens
CountTokens(text) == Len(text) \div 4

ModelWindow == 4000

\* OpenAIService.validate_prompt_length
ValidatePromptLength(p, maxtok) == CountTokens(p) <= ModelWindow - maxtok

(***************************************************************************)
(* search_documents and _fallback_search, the parts that compute           *)
(***************************************************************************)

\* the substring query issued whatever the primary query returned
NeedsSubstringFallbackAlways(found, query) == query # ""

\* line 87: "if not documents and query"
NeedsSubstringFallback(found, query) == found = << >> /\ query # ""

\* _rank_documents_by_similarity: the vectorizer either yields the
\* similarities sims or raises
RankDocuments(found, sims, fails) ==
    IF fails THEN RankedFailed(found) ELSE RankedOk(found, sims)

\* search_documents with "len(documents) >= 1" for "len(documents) > 1"
SearchResultRankSingle(found, sims, fails, limit) ==
    IF found = << >> THEN << >>
    ELSE Take(RankDocuments(found, sims, fails), limit)

\* lines 111-119: what search_documents returns for the candidates found
SearchResult(found, sims, fails, limit) ==
    IF found = << >> THEN << >>
    ELSE IF Len(found) > 1
         THEN Take(RankDocuments(found, sims, fails), limit)
         ELSE << WithScore(found[1], SingleScore) >>

\* line 68: the words of the question longer than 3 characters, lowered
MinWordLength == 3

FallbackWords(q) ==
    LET ws == SelectSeq(Split(q), LAMBDA w : Len(w) > MinWordLength)
    IN [i \in 1..Len(ws) |-> Lower(ws[i])]

\* "score basico", line 115: 0.3
FallbackScore == 3

\* the collected documents with no check of the identifier
UniqueDocsUnchecked(all, i, acc) == all

\* lines 103-107: one document per identifier, the first one met, in the
\* order the identifiers were first met
RECURSIVE UniqueDocs(_, _, _)
UniqueDocs(all, i, acc) ==
    IF i > Len(all) THEN acc
    ELSE IF \E j \in 1..Len(acc) : acc[j]["_id"] = all[i]["_id"]
         THEN UniqueDocs(all, i + 1, acc)
         ELSE UniqueDocs(all, i + 1, Append(acc, all[i]))

\* _fallback_search returning result_docs for result_docs[:self.max_results]
FallbackResultUncapped(all, limit) ==
    LET result_docs == UniqueDocs(all, 1, << >>)
    IN [i \in 1..Len(result_docs) |-> WithScore(result_docs[i], FallbackScore)]

\* lines 102-117: what _fallback_search returns for the documents collected
FallbackResult(all, limit) ==
    LET result_docs == UniqueDocs(all, 1, << >>)
    IN Take([i \in 1..Len(result_docs) |-> WithScore(result_docs[i], FallbackScore)], limit)

(***************************************************************************)
(* The service                                                             *)
(***************************************************************************)

\* configuration read from the environment at construction
MaxMaxResults == 2
ContextLengthConfigs == {250, 350, 3000}
MaxTokensConfigs == {1000, 3800}

\* the questions and filter values a client may send
Questions ==
    {"calculus", "mechanics", "Calc", "calc exam", "zzzz", "", "hi"}
FilterInputs ==
    { [subject |-> "", tutor |-> "", className |-> ""],
      [subject |-> "physics", tutor |-> "", className |-> ""] }

FilterKeys == {"subject", "tutor", "className"}

NoResponse == [status |-> "none", http |-> 0, answer |-> "", context_used |-> "",
               sources |-> << >>]

Completion == "<completion>"

VARIABLES
    collection,          \* the documents of the store, in natural order
    max_results,         \* RAGSystem.max_results
    max_context_length,  \* RAGSystem.max_context_length
    max_tokens,          \* OpenAIService.max_tokens
    pc,                  \* where the request is
    question,            \* data['question']
    filters,             \* the filters handed to process_question
    documents,           \* search_documents: the candidates of the last query
    similarities,        \* the similarities the ranking computed
    rankFailed,          \* the ranking raised and fell back to 0.5
    ranked,              \* what _rank_documents_by_similarity returned
    words,               \* _fallback_search: words
    wi,                  \* _fallback_search: index of the next word
    all_docs,            \* _fallback_search: all_docs
    relevant_docs,       \* process_question: relevant_docs
    context,             \* process_question: context
    prompt,              \* process_question: prompt
    response,            \* what the handler answers
    queryLog,            \* the find() calls of this request, in order
    apiCalls,            \* the generate_response calls of this request
    apiFailed,           \* a generate_response call of this request raised
    vectorizer,          \* DatabaseService.vectorizer: the texts it was fitted on last
    thread_pc,           \* concurrent rankings: where each handling thread is
    thread_query,        \* concurrent rankings: query of each thread
    thread_documents,    \* concurrent rankings: documents of each thread
    thread_similarities, \* the similarities of each thread's ranking run alone
    thread_ranked        \* what each thread's ranking returned

vars == << collection, max_results, max_context_length, max_tokens, pc, question,
           filters, documents, similarities, rankFailed, ranked, words, wi, all_docs,
           relevant_docs, context, prompt, response, queryLog, apiCalls, apiFailed,
           vectorizer, thread_pc, thread_query, thread_documents,
           thread_similarities, thread_ranked >>

\* the vectorizer of the one DatabaseService and the rankings that use it
\* from several handling threads
threads == << vectorizer, thread_pc, thread_query, thread_documents,
              thread_similarities, thread_ranked >>

\* a TfidfVectorizer that was constructed and never fitted
Unfitted == << >>

\* one request at a time: no second handling thread.  A ranking fits the
\* vectorizer before it transforms, so what an earlier request left in it
\* is never read and the sequential specification does not follow it.
NoThreads ==
    /\ vectorizer = Unfitted
    /\ thread_pc = << >> /\ thread_query = << >> /\ thread_documents = << >>
    /\ thread_similarities = << >> /\ thread_ranked = << >>

config == << collection, max_results, max_context_length, max_tokens >>

\* the stores: every selection of documents of the pool, in pool order
Stores ==
    { SelectSeq(DocPool, LAMBDA d : d["_id"] \in ids) :
        ids \in SUBSET {DocPool[i]["_id"] : i \in 1..Len(DocPool)} }

Idle ==
    /\ pc = "idle"
    /\ question = "" /\ filters = << >>
    /\ documents = << >> /\ similarities = << >> /\ rankFailed = FALSE
    /\ ranked = << >>
    /\ words = << >> /\ wi = 0 /\ all_docs = << >>
    /\ relevant_docs = << >> /\ context = "" /\ prompt = ""
    /\ response = NoResponse /\ queryLog = << >> /\ apiCalls = 0
    /\ apiFailed = FALSE

Init ==
    /\ collection \in Stores
    /\ max_results \in 1..MaxMaxResults
    /\ max_context_length \in ContextLengthConfigs
    /\ max_tokens \in MaxTokensConfigs
    /\ Idle
    /\ NoThreads

\* main.py lines 60-65: an exception reaches the handler
Raise ==
    /\ response' = [status |-> "error", http |-> 500, answer |-> "",
                    context_used |-> "", sources |-> << >>]
    /\ pc' = "done"

\* process_question lines 36-42
NoInfo ==
    /\ relevant_docs' = << >>
    /\ response' = [status |-> "success", http |-> 200, answer |-> NoInfoAnswer,
                    context_used |-> "", sources |-> << >>]
    /\ pc' = "done"
    /\ UNCHANGED << context, prompt >>

\* process_question lines 44-46
Proceed(docs) ==
    /\ relevant_docs' = docs
    /\ context' = PrepareContext(docs, max_context_length)
    /\ prompt' = GeneratePrompt(question, PrepareContext(docs, max_context_length))
    /\ pc' = "generate"
    /\ UNCHANGED response

\* process_question without the second "if not relevant_docs"
AfterFallbackUnchecked(docs) == Proceed(docs)

\* process_question lines 36-47 after _fallback_search returned docs
AfterFallback(docs) == IF docs = << >> THEN NoInfo ELSE Proceed(docs)

\* process_question lines 31-47 after search_documents returned docs
AfterSearch(docs) ==
    IF docs # << >>
    THEN Proceed(docs) /\ UNCHANGED << words, wi, all_docs >>
    ELSE LET w == FallbackWords(question)
         IN /\ words' = w
            /\ IF w = << >>
               THEN AfterFallback(<< >>) /\ UNCHANGED << wi, all_docs >>
               ELSE /\ pc' = "fallback"
                    /\ wi' = 1
                    /\ all_docs' = << >>
                    /\ UNCHANGED << relevant_docs, context, prompt, response >>

\* search_documents lines 111-119 and the return to process_question
Ranking(found) ==
    \E sims \in [1..Len(found) -> SimilarityValues], fails \in BOOLEAN :
        /\ documents' = found
        /\ similarities' = (IF Len(found) > 1 /\ ~fails THEN sims ELSE << >>)
        /\ rankFailed' = (Len(found) > 1 /\ fails)
        /\ ranked' = (IF Len(found) > 1 THEN RankDocuments(found, sims, fails) ELSE << >>)
        /\ AfterSearch(SearchResult(found, sims, fails, max_results))

Logged(tier, arg, ok, n) == Append(queryLog, [tier |-> tier, arg |-> arg, ok |-> ok, n |-> n])

\* main.py lines 24-50: the handler takes a request
AskQuestion ==
    /\ pc = "idle"
    /\ \/ \* no 'question' in the body: 400
          /\ response' = [status |-> "error", http |-> 400, answer |-> "",
                          context_used |-> "", sources |-> << >>]
          /\ pc' = "done"
          /\ UNCHANGED << question, filters >>
       \/ \E q \in Questions, f \in FilterInputs :
          /\ question' = q
          /\ filters' = [k \in {k \in FilterKeys : f[k] # ""} |-> f[k]]
          /\ pc' = "search"
          /\ UNCHANGED response
    /\ UNCHANGED << config, threads, documents, similarities, rankFailed, ranked, words, wi, all_docs,
                    relevant_docs, context, prompt, queryLog, apiCalls, apiFailed >>

\* search_documents lines 59-84: the primary query
PrimaryQuery ==
    /\ pc = "search"
    /\ \/ \* the store raises
          /\ queryLog' = Logged("primary", question, FALSE, 0)
          /\ Raise
          /\ UNCHANGED << documents, similarities, rankFailed, ranked, words, wi, all_docs,
                          relevant_docs, context, prompt >>
       \/ LET found == FindPrimary(collection, question, filters, max_results)
          IN /\ queryLog' = Logged("primary", question, TRUE, Len(found))
             /\ IF NeedsSubstringFallback(found, question)
                THEN /\ pc' = "substring"
                     /\ documents' = found
                     /\ UNCHANGED << similarities, rankFailed, ranked, words, wi, all_docs,
                                     relevant_docs, context, prompt, response >>
                ELSE Ranking(found)
    /\ UNCHANGED << config, threads, question, filters, apiCalls, apiFailed >>

\* search_documents lines 87-109: the substring query
SubstringQuery ==
    /\ pc = "substring"
    /\ \/ \* the store raises
          /\ queryLog' = Logged("substring", Lower(question), FALSE, 0)
          /\ Raise
          /\ UNCHANGED << documents, similarities, rankFailed, ranked, words, wi, all_docs,
                          relevant_docs, context, prompt >>
       \/ LET found == FindSubstring(collection, question, max_results)
          IN /\ queryLog' = Logged("substring", Lower(question), TRUE, Len(found))
             /\ Ranking(found)
    /\ UNCHANGED << config, threads, question, filters, apiCalls, apiFailed >>

\* _fallback_search lines 76-117: the query of one word; after the last
\* word the result is built and process_question goes on
FallbackQuery ==
    /\ pc = "fallback"
    /\ \E ok \in BOOLEAN :
         LET docs == IF ok THEN FindToken(collection, words[wi]) ELSE << >>
             all  == all_docs \o docs
         IN /\ queryLog' = Logged("token", words[wi], ok, Len(docs))
            /\ all_docs' = all
            /\ IF wi < Len(words)
               THEN /\ wi' = wi + 1
                    /\ UNCHANGED << pc, relevant_docs, context, prompt, response >>
               ELSE /\ wi' = wi
                    /\ AfterFallback(FallbackResult(all, max_results))
    /\ UNCHANGED << config, threads, question, filters, documents, similarities, rankFailed, ranked,
                    words, apiCalls, apiFailed >>

\* generate_response called again after a failure of the completion API
GenerateResponseRetry ==
    /\ pc = "generate"
    /\ apiCalls' = apiCalls + 1
    /\ \/ \* the completion API raises
          /\ apiFailed' = TRUE
          /\ UNCHANGED << pc, response >>
       \/ /\ response' = [status |-> "success", http |-> 200, answer |-> Completion,
                          context_used |-> context,
                          sources |-> PrepareSources(relevant_docs)]
          /\ pc' = "done"
          /\ UNCHANGED apiFailed
    /\ UNCHANGED << config, threads, question, filters, documents, similarities, rankFailed, ranked,
                    words, wi, all_docs, relevant_docs, context, prompt, queryLog >>

\* process_question lines 47-56 and main.py lines 52-65
GenerateResponse ==
    /\ pc = "generate"
    /\ apiCalls' = apiCalls + 1
    /\ \/ \* the completion API raises
          /\ apiFailed' = TRUE
          /\ Raise
       \/ /\ response' = [status |-> "success", http |-> 200, answer |-> Completion,
                          context_used |-> context,
                          sources |-> PrepareSources(relevant_docs)]
          /\ pc' = "done"
          /\ UNCHANGED apiFailed
    /\ UNCHANGED << config, threads, question, filters, documents, similarities, rankFailed, ranked,
                    words, wi, all_docs, relevant_docs, context, prompt, queryLog >>

\* the request is over; the service waits for the next one
Reply ==
    /\ pc = "done"
    /\ pc' = "idle"
    /\ question' = "" /\ filters' = << >>
    /\ documents' = << >> /\ similarities' = << >> /\ rankFailed' = FALSE
    /\ ranked' = << >>
    /\ words' = << >> /\ wi' = 0 /\ all_docs' = << >>
    /\ relevant_docs' = << >> /\ context' = "" /\ prompt' = ""
    /\ response' = NoResponse /\ queryLog' = << >> /\ apiCalls' = 0
    /\ apiFailed' = FALSE
    /\ UNCHANGED << config, threads >>

Next ==
    \/ AskQuestion
    \/ PrimaryQuery
    \/ SubstringQuery
    \/ FallbackQuery
    \/ GenerateResponse
    \/ Reply

Spec == Init /\ [][Next]_vars

(***************************************************************************)
(* Two requests ranked at the same time.  Flask serves each request on a   *)
(* thread of its own, and every thread calls the one rag_system, whose     *)
(* DatabaseService holds the one TfidfVectorizer.  fit_transform first     *)
(* fits the vectorizer on the texts it is given (vocabulary and idf        *)
(* weights are stored in the object) and then weights the term counts      *)
(* with what the object holds.                                             *)
(***************************************************************************)

Threads == {1, 2}

ThreadQuestions == {"calculus", ""}

\* line 135: the text of one document
CombinedText(doc) ==
    Get(doc, "subject", "") \o " " \o Get(doc, "tutor", "") \o " "
    \o Get(doc, "className", "") \o " " \o Get(doc, "document", "")

\* lines 132-139: all_texts
AllTexts(query, docs) ==
    [i \in 1..Len(docs) |-> CombinedText(docs[i])] \o << query >>

\* the ranking of thread t when no other thread touches the vectorizer
RankedAlone(t) == RankedOk(thread_documents[t], thread_similarities[t])

\* Two threads are in search_documents with more than one candidate each,
\* about to rank.  The similarities a ranking computes alone are a function
\* of its texts.
ConcInit ==
    /\ collection \in {st \in Stores : Len(st) = 2}
    /\ max_results = 1
    /\ max_context_length = 3000
    /\ max_tokens = 1000
    /\ Idle
    /\ vectorizer = Unfitted
    /\ thread_query \in [Threads -> ThreadQuestions]
    /\ thread_documents =
           [t \in Threads |-> FindPrimary(collection, thread_query[t], << >>, max_results)]
    /\ \A t \in Threads : Len(thread_documents[t]) > 1
    /\ thread_similarities \in [Threads -> [1..2 -> SimilarityValues]]
    /\ \A t, u \in Threads :
           AllTexts(thread_query[t], thread_documents[t])
             = AllTexts(thread_query[u], thread_documents[u])
           => thread_similarities[t] = thread_similarities[u]
    /\ thread_pc = [t \in Threads |-> "fit"]
    /\ thread_ranked = [t \in Threads |-> << >>]

\* line 142, first half of fit_transform: the vectorizer is fitted on the
\* texts of this thread's request
Fit(t) ==
    /\ thread_pc[t] = "fit"
    /\ vectorizer' = AllTexts(thread_query[t], thread_documents[t])
    /\ thread_pc' = [thread_pc EXCEPT ![t] = "transform"]
    /\ UNCHANGED << thread_query, thread_documents, thread_similarities, thread_ranked >>

\* line 142, second half of fit_transform, and lines 144-174: the term
\* counts are weighted with what the vectorizer holds.  If it still holds
\* the fit of this thread the ranking is the one computed alone; if another
\* thread has fitted it since, the weights belong to other texts: the
\* similarities are whatever comes out, or the shapes do not match and the
\* except branch scores every document 0.5.
Transform(t) ==
    /\ thread_pc[t] = "transform"
    /\ IF vectorizer = AllTexts(thread_query[t], thread_documents[t])
       THEN thread_ranked' = [thread_ranked EXCEPT ![t] = RankedAlone(t)]
       ELSE \E sims \in [1..Len(thread_documents[t]) -> SimilarityValues],
               fails \in BOOLEAN :
                thread_ranked' = [thread_ranked EXCEPT
                                    ![t] = RankDocuments(thread_documents[t], sims, fails)]
    /\ thread_pc' = [thread_pc EXCEPT ![t] = "ranked"]
    /\ UNCHANGED << vectorizer, thread_query, thread_documents, thread_similarities >>

FitStep ==
    /\ \E t \in Threads : Fit(t)
    /\ UNCHANGED << config, pc, question, filters, documents, similarities, rankFailed,
                    ranked, words, wi, all_docs, relevant_docs, context, prompt,
                    response, queryLog, apiCalls, apiFailed >>

TransformStep ==
    /\ \E t \in Threads : Transform(t)
    /\ UNCHANGED << config, pc, question, filters, documents, similarities, rankFailed,
                    ranked, words, wi, all_docs, relevant_docs, context, prompt,
                    response, queryLog, apiCalls, apiFailed >>

ConcNext ==
    \/ FitStep
    \/ TransformStep

ConcSpec == ConcInit /\ [][ConcNext]_vars

(***************************************************************************)
(* Properties                                                              *)
(***************************************************************************)

\* the request went through retrieval: process_question holds its documents
Retrieved == pc \in {"generate", "done"}

\* _fallback_search ran its queries and returned
FallbackReturned ==
    Retrieved /\ \E j \in 1..Len(queryLog) : queryLog[j].tier = "token"

AllTiersEmpty ==
    /\ queryLog # << >>
    /\ \A j \in 1..Len(queryLog) :
        /\ queryLog[j].n = 0
        /\ queryLog[j].tier \in {"primary", "substring"} => queryLog[j].ok

\* C2: a request whose every retrieval tier returned no document ends with
\* the fixed answer, an empty context and no sources, and generate_response
\* was not called for it.
C2_NoInfoWithoutCompletion ==
    (pc = "done" /\ AllTiersEmpty) =>
        /\ response = [status |-> "success", http |-> 200, answer |-> NoInfoAnswer,
                       context_used |-> "", sources |-> << >>]
        /\ apiCalls = 0

\* C2 witness: the three tiers were tried on a store that holds documents,
\* and all came back empty
C2_Witness ==
    /\ pc = "done" /\ AllTiersEmpty
    /\ collection # << >>
    /\ \E j \in 1..Len(queryLog) : queryLog[j].tier = "token"

\* C3: the context is never longer than max_context_length.
C3_ContextWithinBudget == Len(context) <= max_context_length
\* a query of search_documents raised during this request
SearchQueryFailed ==
    \E j \in 1..Len(queryLog) :
        queryLog[j].tier \in {"primary", "substring"} /\ ~queryLog[j].ok

\* C4: a request during which a query of search_documents failed ends with
\* the "no relevant documents" response, not with a request failure.
C4_StoreFailureReportsNoDocuments ==
    (pc = "done" /\ SearchQueryFailed) =>
        /\ response.status = "success"
        /\ response.answer = NoInfoAnswer
        /\ response.sources = << >>

\* document d satisfies every filter supplied with the request
SatisfiesFilters(d) ==
    \A k \in DOMAIN filters : k \in DOMAIN d /\ RegexMatchI(d[k], filters[k])

\* C5: every document retrieved through search_documents holds each
\* supplied filter value as a case-insensitive substring of its field.
C5_FiltersHold ==
    \A i \in 1..Len(documents) : SatisfiesFilters(documents[i])

\* C6: every prompt handed to generate_response is within the prompt
\* length budget.
C6_PromptWithinBudget ==
    apiCalls > 0 => ValidatePromptLength(prompt, max_tokens)

\* the position of the document with identifier id in docs
PositionOf(docs, id) == CHOOSE i \in 1..Len(docs) : docs[i]["_id"] = id

\* C7: the ranking of more than one candidate is ordered by relevance_score
\* descending, and documents of equal score stay in retrieval order.
C7_SortedStable ==
    Len(documents) > 1 =>
        \A i, j \in 1..Len(ranked) :
            i < j =>
                /\ ranked[i].relevance_score >= ranked[j].relevance_score
                /\ ranked[i].relevance_score = ranked[j].relevance_score =>
                       PositionOf(documents, ranked[i]["_id"])
                           < PositionOf(documents, ranked[j]["_id"])

\* C7 witness: a ranking that moved a document ahead of an earlier one and
\* holds two documents of the same score
C7_Witness ==
    /\ Len(documents) > 1 /\ ~rankFailed
    /\ \E i, j \in 1..Len(ranked) :
          i < j /\ PositionOf(documents, ranked[i]["_id"])
                      > PositionOf(documents, ranked[j]["_id"])
    /\ \E i, j \in 1..Len(ranked) :
          i < j /\ ranked[i].relevance_score = ranked[j].relevance_score

\* SIMILARITY_THRESHOLD, the configured score threshold: 0.1
similarity_threshold == 1

\* C8: the ranking of more than one candidate holds no document below the
\* score cutoff, unless every score is below it, and then it holds exactly
\* one document.
C8_CutoffApplied ==
    (Len(documents) > 1 /\ ~rankFailed) =>
        /\ ranked # << >>
        /\ \/ \A i \in 1..Len(ranked) : ranked[i].relevance_score >= similarity_threshold
           \/ /\ Len(ranked) = 1
              /\ \A i \in 1..Len(similarities) : similarities[i] < similarity_threshold

\* the identifiers of the candidates the retrieval of this request found
CandidateIds ==
    IF documents # << >>
    THEN {documents[i]["_id"] : i \in 1..Len(documents)}
    ELSE {all_docs[i]["_id"] : i \in 1..Len(all_docs)}

\* C9, as claimed: a request whose retrieval found exactly one candidate,
\* whichever tier found it, works with that document at score 1.0.
C9_SingleCandidateAnyTier ==
    (Retrieved /\ Cardinality(CandidateIds) = 1) =>
        /\ Len(relevant_docs) = 1
        /\ relevant_docs[1].relevance_score = SingleScore

\* C9, amended: a single candidate of the primary or the substring query is
\* returned at score 1.0, whatever the question; the documents the
\* per-token fallback returns have score 0.3, a single one included.
C9_SingleCandidateBySearch ==
    /\ (Retrieved /\ Len(documents) = 1) =>
          relevant_docs = << WithScore(documents[1], SingleScore) >>
    /\ FallbackReturned =>
          \A i \in 1..Len(relevant_docs) :
              relevant_docs[i].relevance_score = FallbackScore

\* C9 witness: the substring query found one document, for a question that
\* shares no whole word with it
C9_Witness ==
    /\ Retrieved /\ Len(documents) = 1
    /\ Len(queryLog) = 2 /\ queryLog[2].tier = "substring"

\* C10: the list _fallback_search returns holds each identifier once, in the
\* order in which the identifiers were first found.
C10_FallbackUnique ==
    FallbackReturned =>
        \A i, j \in 1..Len(relevant_docs) :
            i < j =>
                /\ relevant_docs[i]["_id"] # relevant_docs[j]["_id"]
                /\ PositionOf(all_docs, relevant_docs[i]["_id"])
                       < PositionOf(all_docs, relevant_docs[j]["_id"])

\* C10 witness: a document was found for two words, and the fallback
\* returned more than one document
C10_Witness ==
    /\ FallbackReturned
    /\ Len(relevant_docs) > 1
    /\ \E i, j \in 1..Len(all_docs) : i < j /\ all_docs[i]["_id"] = all_docs[j]["_id"]

\* C11: a ranking that failed returned every candidate, in retrieval order,
\* each with score 0.5; search_documents returned its first max_results
\* documents and the request went on to the completion call, with no error.
C11_FailedRankingNeutral ==
    rankFailed =>
        /\ Len(ranked) = Len(documents)
        /\ \A i \in 1..Len(ranked) : ranked[i] = WithScore(documents[i], NeutralScore)
        /\ Retrieved
        /\ relevant_docs = Take(ranked, max_results)
        /\ apiCalls = 0 => (pc = "generate" /\ response = NoResponse)
        /\ (pc = "done" /\ ~apiFailed) => response.status = "success"

\* C11 witness: the ranking of three candidates failed and the request ended
\* with an answer
C11_Witness ==
    /\ rankFailed /\ Len(documents) = 3
    /\ pc = "done" /\ response.status = "success" /\ response.answer = Completion

\* C12: a request whose completion call failed ends as a request failure,
\* HTTP 500, and generate_response was called once for it; no request calls
\* generate_response more than once.
C12_CompletionFailurePropagates ==
    /\ apiCalls <= 1
    /\ apiFailed =>
          /\ pc = "done"
          /\ apiCalls = 1
          /\ response = [status |-> "error", http |-> 500, answer |-> "",
                         context_used |-> "", sources |-> << >>]

\* C12 witness: documents were retrieved, the completion call failed
C12_Witness ==
    /\ apiFailed /\ pc = "done"
    /\ relevant_docs # << >> /\ response.http = 500

\* the summed length of the snippets of the first k documents
RECURSIVE SnippetTotal(_, _)
SnippetTotal(docs, k) ==
    IF k = 0 THEN 0 ELSE SnippetTotal(docs, k - 1) + Len(DocContext(docs[k]))

\* the documents whose snippet takes the running total over the budget
Overflowing(docs) ==
    {k \in 1..Len(docs) : SnippetTotal(docs, k) > max_context_length}

\* the first of them
FirstOverflow(docs) ==
    CHOOSE k \in Overflowing(docs) : \A m \in Overflowing(docs) : k <= m

\* the budget left when the first overflowing document is met
RemainingSpace(docs) ==
    max_context_length - SnippetTotal(docs, FirstOverflow(docs) - 1)

\* the context of docs holds a truncated snippet
Truncating(docs) ==
    Overflowing(docs) # {} /\ RemainingSpace(docs) > MinUsefulSpace

\* where the last snippet starts in the context of a truncating docs: after
\* the snippets before it and their separators
LastSnippetOffset(docs) ==
    SnippetTotal(docs, FirstOverflow(docs) - 1)
        + Len("\n---\n") * (FirstOverflow(docs) - 1)

\* C13: a truncated last snippet ends with "..." and the text kept before
\* the marker ends at a word boundary of the document's snippet, when the
\* snippet has whitespace before the limit.
C13_TruncatesAtWordBoundary ==
    (Retrieved /\ Truncating(relevant_docs)) =>
        LET full == DocContext(relevant_docs[FirstOverflow(relevant_docs)])
            kept == SubSeq(context, LastSnippetOffset(relevant_docs) + 1,
                           Len(context) - Len(TruncationSuffix))
        IN /\ SubSeq(context, Len(context) - Len(TruncationSuffix) + 1, Len(context))
                  = TruncationSuffix
           /\ kept = SubSeq(full, 1, Len(kept))
           /\ (\E i \in 1..RemainingSpace(relevant_docs) : IsSpace(CharAt(full, i))) =>
                  \/ IsSpace(CharAt(full, Len(kept)))
                  \/ IsSpace(CharAt(full, Len(kept) + 1))

\* the snippets of the first k documents, whole
FullSnippets(docs, k) == [i \in 1..k |-> DocContext(docs[i])]

\* C15, as claimed: the first document that takes the running total over
\* the budget is in the context, cut and marked, as the last snippet, after
\* the whole snippets of the documents before it and nothing else.
C15_OverflowingTruncatedLast ==
    (Retrieved /\ Overflowing(relevant_docs) # {}) =>
        LET k    == FirstOverflow(relevant_docs)
            full == DocContext(relevant_docs[k])
            n    == Len(context) - LastSnippetOffset(relevant_docs)
                        - Len(TruncationSuffix)
        IN /\ n >= 0
           /\ context = JoinWith("\n---\n",
                  FullSnippets(relevant_docs, k - 1)
                  \o << SubSeq(full, 1, n) \o TruncationSuffix >>)

\* C15, amended: the first document that takes the running total over the
\* budget is cut to the remaining space, marked and put last when more than
\* 200 characters remain, and is left out when 200 or fewer remain; either
\* way the context holds the whole snippets of the documents before it and
\* no document after it.
C15_OverflowingCutOrDropped ==
    (Retrieved /\ Overflowing(relevant_docs) # {}) =>
        LET k    == FirstOverflow(relevant_docs)
            full == DocContext(relevant_docs[k])
            rem  == RemainingSpace(relevant_docs)
        IN context = JoinWith("\n---\n",
               FullSnippets(relevant_docs, k - 1)
               \o (IF rem > MinUsefulSpace
                   THEN << SubSeq(full, 1, rem) \o TruncationSuffix >>
                   ELSE << >>))

\* C15 witness: the first of two ranked documents does not fit and is cut;
\* the second one would fit the budget by itself
C15_Witness ==
    /\ Retrieved /\ Len(relevant_docs) = 2
    /\ FirstOverflow(relevant_docs) = 1 /\ Truncating(relevant_docs)
    /\ Len(DocContext(relevant_docs[2])) <= max_context_length

\* C16: the documents process_question works with, from search_documents
\* or from _fallback_search, are never more than max_results, and neither
\* are the sources of the response.
C16_AtMostMaxResults ==
    /\ Len(relevant_docs) <= max_results
    /\ Len(response.sources) <= max_results

\* C16 witness: the per-token fallback found more documents than
\* max_results and the response names max_results sources
C16_Witness ==
    /\ FallbackReturned /\ pc = "done"
    /\ Cardinality(CandidateIds) > max_results
    /\ Len(response.sources) = max_results

\* C14: under every interleaving of two concurrent requests, the ranking
\* _rank_documents_by_similarity returns for a request has the scores and
\* the order it has when the request runs alone.
C14_RankingIsolated ==
    \A t \in DOMAIN thread_pc :
        thread_pc[t] = "ranked" => thread_ranked[t] = RankedAlone(t)
====
